---- MODULE Spec2Model ----
(***************************************************************************)
(* Driva: driver attention state machine, emergency countdown and the      *)
(* live voice session of the App component (src/unnamed/part_000), with    *)
(* the eye-aspect-ratio helper of src/utils/fatigueDetection.ts.           *)
(*                                                                         *)
(* React is modelled as follows.  The state variables hold the state with  *)
(* every queued update applied.  A handler (timer callback, promise        *)
(* continuation, DOM event, session callback) is one atomic action.  The   *)
(* action Render commits the current state and runs, in declaration        *)
(* order, the effects whose dependencies differ from the last commit       *)
(* (kept in rendered); the effects read the committed values, and their    *)
(* own updates are applied afterwards in call order.                       *)
(***************************************************************************)
EXTENDS Integers, Sequences, FiniteSets, TLC

\* ------------------------------------------------------------- constants
EAR_THRESHOLD_NUM == 25
EAR_THRESHOLD_DEN == 100
CONSECUTIVE_FRAMES_DROWSY == 10
CONSECUTIVE_FRAMES_UNRESPONSIVE == 25
COUNTDOWN_START == 15

\* ---------------------------------------------------------------- bounds
MaxEyeFrames == 12
MaxNoFaceFrames == 27
MaxInFlight == 1
MaxCycles == 1
MaxNotify == 2
MaxTranscript == 2
MaxSessions == 2
MaxText == 2
MaxCalls == 2
MaxBatch == 2
MaxChunks == 3
MaxClock == 4

VARIABLES
    \* React state (useState)
    driverState, miraState, permissionsGranted, modelsLoaded, transcriptions,
    location, isEmergency, emergencyCountdown,
    \* refs and the timers they hold
    aiRef, emergencyTimerRef, liveTimers, detectionInterval,
    eyeClosedFrames, noFaceFrames,
    \* asynchronous positions
    setupPc, inFlight, sessPc,
    \* last commit: the values the effects compare and read
    rendered, locDirty,
    \* observation of the run (what was logged/called, per countdown cycle and
    \* per run of samples)
    started, notified, cycleTicks, cycleNotifs, cycleAcks, cancelAt,
    runClosed, runDrowsyReqs, runNoFace, runUnrespReqs,
    \* the exception the last detection callback ended with ("none": it returned)
    detectError,
    sessionsStarted, engagedWithSession,
    \* microphone capture: the sessions whose ScriptProcessor is wired, the last
    \* frame handed to sendRealtimeInput, the last console line of the session
    capture, lastFrame, sessionLog,
    \* the session's closure variables, the handlers suspended in an await,
    \* the audio refs and what went out to the agent or the speaker
    currentInputTranscription, currentOutputTranscription, handlers,
    currentSong, nextAudioStartTime, outClock, toolLocation, sessLocation,
    receivedCalls, toolResponses, scheduled

stateVars == <<driverState, miraState, permissionsGranted, modelsLoaded,
               transcriptions, location, isEmergency, emergencyCountdown>>
refVars == <<aiRef, emergencyTimerRef, liveTimers, detectionInterval,
             eyeClosedFrames, noFaceFrames>>
pcVars == <<setupPc, inFlight, sessPc>>
commitVars == <<rendered, locDirty>>
cycleVars == <<started, notified, cycleTicks, cycleNotifs, cycleAcks, cancelAt>>
runVars == <<runClosed, runDrowsyReqs, runNoFace, runUnrespReqs, detectError>>
sessObs == <<sessionsStarted, engagedWithSession, capture, lastFrame, sessionLog>>
msgVars == <<currentInputTranscription, currentOutputTranscription, handlers,
             currentSong, nextAudioStartTime, outClock, toolLocation, sessLocation,
             receivedCalls, toolResponses, scheduled>>
vars == <<stateVars, refVars, pcVars, commitVars, cycleVars, runVars, sessObs, msgVars>>

DriverStates == {"MONITORING", "DROWSY", "UNRESPONSIVE", "ENGAGED"}
MiraStates == {"IDLE", "LISTENING", "THINKING", "SPEAKING"}

\* ------------------------------------------------ fatigueDetection.ts
\* floor of the square root; exact on the landmark sets used below
ISqrt(n) == CHOOSE r \in 0..n : r * r <= n /\ (r + 1) * (r + 1) > n

getEuclideanDistance(p1, p2) ==
    ISqrt((p1[1] - p2[1]) * (p1[1] - p2[1]) + (p1[2] - p2[2]) * (p1[2] - p2[2]))

\* the ratio (verticalDist1 + verticalDist2) / (2.0 * horizontalDist), kept as
\* the pair <<numerator, denominator>>
getEyeAspectRatio(eyeLandmarks) ==
    LET p1 == eyeLandmarks[1]
        p2 == eyeLandmarks[2]
        p3 == eyeLandmarks[3]
        p4 == eyeLandmarks[4]
        p5 == eyeLandmarks[5]
        p6 == eyeLandmarks[6]
        verticalDist1 == getEuclideanDistance(p2, p6)
        verticalDist2 == getEuclideanDistance(p3, p5)
        horizontalDist == getEuclideanDistance(p1, p4)
    IN <<verticalDist1 + verticalDist2, 2 * horizontalDist>>

\* six landmarks of an eye of width w and half-height h
Eye(w, h) == << <<0, 0>>, <<3, h>>, <<w - 3, h>>, <<w, 0>>, <<w - 3, 0 - h>>, <<3, 0 - h>> >>
ClosedEye == Eye(10, 1)
EdgeEye == Eye(8, 1)
OpenEye == Eye(10, 2)

NoFace == [face |-> FALSE]
EyePairs == {<<ClosedEye, ClosedEye>>, <<ClosedEye, EdgeEye>>, <<EdgeEye, EdgeEye>>,
             <<OpenEye, ClosedEye>>, <<OpenEye, OpenEye>>}
FaceSamples == {[face |-> TRUE, leftEye |-> p[1], rightEye |-> p[2]] : p \in EyePairs}
Samples == {NoFace} \cup FaceSamples

\* ear = (leftEAR + rightEAR) / 2;  ear < EAR_THRESHOLD.  A zero horizontal
\* distance gives Infinity or NaN, for which the comparison is false.
EarBelowThresholdLe(leftEAR, rightEAR) ==
    /\ leftEAR[2] # 0 /\ rightEAR[2] # 0
    /\ (leftEAR[1] * rightEAR[2] + rightEAR[1] * leftEAR[2]) * EAR_THRESHOLD_DEN
         <= EAR_THRESHOLD_NUM * 2 * leftEAR[2] * rightEAR[2]

EarBelowThreshold(leftEAR, rightEAR) ==
    /\ leftEAR[2] # 0 /\ rightEAR[2] # 0
    /\ (leftEAR[1] * rightEAR[2] + rightEAR[1] * leftEAR[2]) * EAR_THRESHOLD_DEN
         < EAR_THRESHOLD_NUM * 2 * leftEAR[2] * rightEAR[2]

\* leftEAR, rightEAR and the comparison of their mean, for one face sample
EyesClosed(s) == EarBelowThreshold(getEyeAspectRatio(s.leftEye), getEyeAspectRatio(s.rightEye))

ClosedSamples == {s \in FaceSamples : EyesClosed(s)}
OpenSamples == FaceSamples \ ClosedSamples

\* landmark arrays that do not have six points: one point missing, one extra
ShortEye == SubSeq(ClosedEye, 1, 5)
LongEye == ClosedEye \o << <<5, 0>> >>
MalformedSamples ==
    {[face |-> TRUE, leftEye |-> p[1], rightEye |-> p[2]] :
        p \in {<<ShortEye, ClosedEye>>, <<OpenEye, ShortEye>>, <<LongEye, ClosedEye>>,
                <<LongEye, LongEye>>}}

\* What a call of getEyeAspectRatio ends with: p6 = eyeLandmarks[5] is
\* undefined when the array is shorter than six, and getEuclideanDistance then
\* reads .x of undefined, a TypeError; points beyond the sixth are never read.
EarError(eyeLandmarks) == IF Len(eyeLandmarks) < 6 THEN "TypeError" ELSE "none"

\* the error of the two calls at lines 228-229, the left eye first
SampleError(s) ==
    IF EarError(s.leftEye) # "none" THEN EarError(s.leftEye) ELSE EarError(s.rightEye)

ThrowingSamples == {s \in MalformedSamples : SampleError(s) # "none"}
ClosedMalformed == {s \in MalformedSamples \ ThrowingSamples : EyesClosed(s)}

\* the counter kept when the eyes are open
EyeClosedAfterSticky(closed, n) == IF closed THEN n + 1 ELSE n

\* if (ear < EAR_THRESHOLD) eyeClosedFramesRef.current++ else ... = 0
EyeClosedAfter(closed, n) == IF closed THEN n + 1 ELSE 0

\* the threshold read as "at least"
DrowsyReachedGe(n) == n >= CONSECUTIVE_FRAMES_DROWSY

\* eyeClosedFramesRef.current > CONSECUTIVE_FRAMES_DROWSY
DrowsyReached(n) == n > CONSECUTIVE_FRAMES_DROWSY

\* the threshold read as "at least"
UnresponsiveReachedGe(n) == n >= CONSECUTIVE_FRAMES_UNRESPONSIVE

\* noFaceFramesRef.current > CONSECUTIVE_FRAMES_UNRESPONSIVE
UnresponsiveReached(n) == n > CONSECUTIVE_FRAMES_UNRESPONSIVE

\* ------------------------------------------------------------------ Init
Snapshot == [driverState |-> driverState, miraState |-> miraState,
             isEmergency |-> isEmergency, emergencyCountdown |-> emergencyCountdown,
             permissionsGranted |-> permissionsGranted, modelsLoaded |-> modelsLoaded]

RenderPending == rendered # Snapshot \/ locDirty

\* no frame sent yet
NoFrame == [from |-> 0, to |-> 0, open |-> FALSE]

\* key: process.env.API_KEY is set, so initializeAi fills aiRef
InitWith(key) ==
    /\ driverState = "MONITORING"
    /\ miraState = "IDLE"
    /\ permissionsGranted = FALSE
    /\ modelsLoaded = FALSE
    /\ transcriptions = <<>>
    /\ location = FALSE
    /\ isEmergency = FALSE
    /\ emergencyCountdown = COUNTDOWN_START
    /\ aiRef = key
    /\ emergencyTimerRef = 0
    /\ liveTimers = {}
    /\ detectionInterval = FALSE
    /\ eyeClosedFrames = 0
    /\ noFaceFrames = 0
    /\ setupPc = "models"
    /\ inFlight = 0
    /\ sessPc = "none"
    /\ rendered = Snapshot
    /\ locDirty = FALSE
    /\ started = 0 /\ notified = 0 /\ cycleTicks = 0 /\ cycleNotifs = 0
    /\ cycleAcks = 0 /\ cancelAt = -1
    /\ runClosed = 0 /\ runDrowsyReqs = 0 /\ runNoFace = 0 /\ runUnrespReqs = 0
    /\ detectError = "none"
    /\ sessionsStarted = 0 /\ engagedWithSession = TRUE
    /\ capture = {} /\ lastFrame = NoFrame /\ sessionLog = "none"
    /\ currentInputTranscription = <<>> /\ currentOutputTranscription = <<>>
    /\ handlers = <<>>
    /\ currentSong = "none"
    /\ nextAudioStartTime = 0
    /\ outClock = 0
    /\ toolLocation = FALSE /\ sessLocation = FALSE
    /\ receivedCalls = <<>> /\ toolResponses = <<>> /\ scheduled = <<>>

Init == InitWith(TRUE)

InitNoKey == InitWith(FALSE)

\* --------------------------------------------------------------- setup
\* faceapi models loaded: setModelsLoaded(true)
SetupModelsLoaded ==
    /\ setupPc = "models"
    /\ setupPc' = "media"
    /\ modelsLoaded' = TRUE
    /\ UNCHANGED <<driverState, miraState, permissionsGranted, transcriptions,
                   location, isEmergency, emergencyCountdown>>
    /\ UNCHANGED <<refVars, inFlight, sessPc, commitVars, cycleVars, runVars, sessObs, msgVars>>

\* getUserMedia resolved: watchPosition registered, setPermissionsGranted(true)
SetupPermissions ==
    /\ setupPc = "media"
    /\ setupPc' = "done"
    /\ permissionsGranted' = TRUE
    /\ UNCHANGED <<driverState, miraState, modelsLoaded, transcriptions,
                   location, isEmergency, emergencyCountdown>>
    /\ UNCHANGED <<refVars, inFlight, sessPc, commitVars, cycleVars, runVars, sessObs, msgVars>>

\* model loading or getUserMedia rejected: the catch block only alerts
SetupFailed ==
    /\ setupPc \in {"models", "media"}
    /\ setupPc' = "failed"
    /\ UNCHANGED <<stateVars, refVars, inFlight, sessPc, commitVars, cycleVars, runVars, sessObs, msgVars>>

\* watchPosition callback: setLocation with a fresh object
LocationUpdate ==
    /\ setupPc = "done"
    /\ ~locDirty
    /\ location' = TRUE
    /\ locDirty' = TRUE
    /\ UNCHANGED <<driverState, miraState, permissionsGranted, modelsLoaded,
                   transcriptions, isEmergency, emergencyCountdown>>
    /\ UNCHANGED <<refVars, pcVars, rendered, cycleVars, runVars, sessObs, msgVars>>

\* ------------------------------------------------- fatigue detection loop
\* the 200 ms interval fires: the callback starts faceapi.detectSingleFace
DetectTick ==
    /\ detectionInterval
    /\ inFlight < MaxInFlight
    /\ inFlight' = inFlight + 1
    /\ UNCHANGED <<stateVars, refVars, setupPc, sessPc, commitVars, cycleVars, runVars, sessObs, msgVars>>

\* the same callback when the interval fires while earlier detections have not
\* resolved: nothing in it looks at them
DetectTickWhileRunning ==
    /\ detectionInterval
    /\ inFlight >= 1
    /\ inFlight <= MaxInFlight
    /\ inFlight' = inFlight + 1
    /\ UNCHANGED <<stateVars, refVars, setupPc, sessPc, commitVars, cycleVars, runVars, sessObs, msgVars>>

\* the awaited detection resolves with a sample; the rest of the callback runs
DetectDone(s) ==
    /\ inFlight > 0
    /\ inFlight' = inFlight - 1
    /\ IF s \in ThrowingSamples
       THEN \* line 223 has run; the exception ends the callback
            /\ noFaceFrames' = 0
            /\ detectError' = SampleError(s)
            /\ UNCHANGED <<eyeClosedFrames, driverState>>
            /\ runClosed' = 0 /\ runDrowsyReqs' = 0 /\ runNoFace' = 0 /\ runUnrespReqs' = 0
       ELSE IF s.face
       THEN LET closed == s \in ClosedSamples \cup ClosedMalformed
                n == EyeClosedAfter(closed, eyeClosedFrames)
                qualified == closed /\ (runClosed > 0 \/ (eyeClosedFrames = 0 /\ driverState = "MONITORING"))
            IN /\ n <= MaxEyeFrames
               /\ noFaceFrames' = 0
               /\ eyeClosedFrames' = n
               /\ driverState' = IF DrowsyReached(n) THEN "DROWSY" ELSE driverState
               /\ runClosed' = IF qualified THEN runClosed + 1 ELSE 0
               /\ runDrowsyReqs' = IF qualified
                                   THEN (IF runClosed = 0 THEN 0 ELSE runDrowsyReqs)
                                        + (IF DrowsyReached(n) THEN 1 ELSE 0)
                                   ELSE 0
               /\ runNoFace' = 0
               /\ runUnrespReqs' = 0
               /\ detectError' = "none"
       ELSE LET n == noFaceFrames + 1
                qualified == runNoFace > 0 \/ (noFaceFrames = 0 /\ driverState = "MONITORING")
            IN /\ n <= MaxNoFaceFrames
               /\ noFaceFrames' = n
               /\ eyeClosedFrames' = eyeClosedFrames
               /\ driverState' = IF UnresponsiveReached(n) THEN "UNRESPONSIVE" ELSE driverState
               /\ runNoFace' = IF qualified THEN runNoFace + 1 ELSE 0
               /\ runUnrespReqs' = IF qualified
                                   THEN (IF runNoFace = 0 THEN 0 ELSE runUnrespReqs)
                                        + (IF UnresponsiveReached(n) THEN 1 ELSE 0)
                                   ELSE 0
               /\ runClosed' = 0
               /\ runDrowsyReqs' = 0
               /\ detectError' = "none"
    /\ UNCHANGED <<miraState, permissionsGranted, modelsLoaded, transcriptions,
                   location, isEmergency, emergencyCountdown>>
    /\ UNCHANGED <<aiRef, emergencyTimerRef, liveTimers, detectionInterval>>
    /\ UNCHANGED <<setupPc, sessPc, commitVars, cycleVars, sessObs, msgVars>>

DetectSample == \E s \in Samples : DetectDone(s)

\* a detection whose landmark arrays do not have six points
DetectMalformed == \E s \in MalformedSamples : DetectDone(s)

\* ------------------------------------------------ emergency countdown
\* clearInterval(emergencyTimerRef.current) left out
ClearIntervalSkipped(live, ref) == live

\* if (emergencyTimerRef.current) clearInterval(emergencyTimerRef.current)
ClearInterval(live, ref) == live \ {ref}

\* the expiry taken one tick late
ExpiryDueBelowZero(c) == c < 0

\* emergencyCountdown <= 0
ExpiryDue(c) == c <= 0

\* the text "I'm okay." (texts are sequences of characters)
ImOkay == <<"I", "'", "m", " ", "o", "k", "a", "y", ".">>

\* two seconds taken off per tick
DecrementTwice(prev) == prev - 2

\* prev => prev - 1
Decrement(prev) == prev - 1

\* the 1000 ms interval fires: setEmergencyCountdown(prev => prev - 1).
\* The commit of a tick takes far less than a second, so the next tick finds
\* the previous one committed.
CountdownTick ==
    /\ liveTimers # {}
    /\ emergencyCountdown = rendered.emergencyCountdown
    /\ emergencyCountdown' = Decrement(emergencyCountdown)
    /\ cycleTicks' = cycleTicks + 1
    /\ UNCHANGED <<driverState, miraState, permissionsGranted, modelsLoaded,
                   transcriptions, location, isEmergency>>
    /\ UNCHANGED <<refVars, pcVars, commitVars, runVars, sessObs, msgVars>>
    /\ UNCHANGED <<started, notified, cycleNotifs, cycleAcks, cancelAt>>

\* click on the "I'm Okay" button, which is in the DOM while the committed
\* isEmergency is true
cancelEmergency ==
    /\ rendered.isEmergency
    /\ Len(transcriptions) < MaxTranscript
    /\ liveTimers' = ClearInterval(liveTimers, emergencyTimerRef)
    /\ isEmergency' = FALSE
    /\ driverState' = "MONITORING"
    /\ transcriptions' = Append(transcriptions, [speaker |-> "USER", text |-> ImOkay])
    /\ cycleAcks' = cycleAcks + 1
    /\ cancelAt' = IF isEmergency THEN emergencyCountdown ELSE cancelAt
    /\ UNCHANGED <<miraState, permissionsGranted, modelsLoaded, location, emergencyCountdown>>
    /\ UNCHANGED <<aiRef, emergencyTimerRef, detectionInterval, eyeClosedFrames, noFaceFrames>>
    /\ UNCHANGED <<pcVars, commitVars, runVars, sessObs, msgVars>>
    /\ UNCHANGED <<started, notified, cycleTicks, cycleNotifs>>

\* the guard without the test of isEmergency
StartsCountdownUnguarded(d, e) == d = "UNRESPONSIVE"

\* driverState === DriverState.UNRESPONSIVE && !isEmergency
StartsCountdown(d, e) == d = "UNRESPONSIVE" /\ ~e

\* the first branch without the test of miraState
EngageDueAnyMira(d, m) == d = "DROWSY"

\* driverState === DriverState.DROWSY && miraState === MiraState.IDLE
EngageDue(d, m) == d = "DROWSY" /\ m = "IDLE"

\* ------------------------------------------------------ commit and effects
\* One commit.  d, m, e, c are the committed values the effects read.
Render ==
    /\ RenderPending
    /\ LET d == driverState
           m == miraState
           e == isEmergency
           c == emergencyCountdown
           depDetect == \/ rendered.permissionsGranted # permissionsGranted
                        \/ rendered.modelsLoaded # modelsLoaded
                        \/ rendered.driverState # d
           depEscalate == \/ rendered.driverState # d
                          \/ rendered.miraState # m
                          \/ rendered.isEmergency # e
                          \/ rendered.permissionsGranted # permissionsGranted
           depExpiry == rendered.emergencyCountdown # c \/ locDirty
           depCallback == \/ rendered.permissionsGranted # permissionsGranted
                          \/ rendered.driverState # d
           \* escalation effect, first branch
           doEngage == depEscalate /\ EngageDue(d, m)
           doSession == doEngage /\ permissionsGranted /\ aiRef
           \* escalation effect, second branch
           doStart == depEscalate /\ StartsCountdown(d, e)
           \* expiry effect
           doExpire == depExpiry /\ ExpiryDue(c)
           timer == started + 1
           liveAfterStart == IF doStart THEN liveTimers \cup {timer} ELSE liveTimers
           refAfterStart == IF doStart THEN timer ELSE emergencyTimerRef
       IN /\ doStart => started < MaxCycles
          /\ doExpire => notified < MaxNotify
          /\ doSession => sessionsStarted < MaxSessions
          \* detection effect: cleanup, then a new interval or none
          /\ detectionInterval' = IF depDetect
                                   THEN permissionsGranted /\ modelsLoaded /\ d = "MONITORING"
                                   ELSE detectionInterval
          /\ driverState' = IF doExpire THEN "MONITORING"
                             ELSE IF doEngage THEN "ENGAGED" ELSE d
          /\ miraState' = IF doSession THEN "LISTENING" ELSE m
          /\ sessPc' = IF doSession THEN "media" ELSE sessPc
          /\ isEmergency' = IF doExpire THEN FALSE ELSE IF doStart THEN TRUE ELSE e
          /\ emergencyCountdown' = IF doStart THEN COUNTDOWN_START ELSE c
          /\ emergencyTimerRef' = refAfterStart
          /\ liveTimers' = IF doExpire THEN ClearInterval(liveAfterStart, refAfterStart)
                            ELSE liveAfterStart
          /\ started' = IF doStart THEN started + 1 ELSE started
          /\ notified' = IF doExpire THEN notified + 1 ELSE notified
          /\ cycleTicks' = IF doStart THEN 0 ELSE cycleTicks
          /\ cycleNotifs' = (IF doStart THEN 0 ELSE cycleNotifs) + (IF doExpire THEN 1 ELSE 0)
          /\ cycleAcks' = IF doStart THEN 0 ELSE cycleAcks
          /\ cancelAt' = IF doStart THEN -1 ELSE cancelAt
          /\ sessionsStarted' = IF doSession THEN sessionsStarted + 1 ELSE sessionsStarted
          /\ engagedWithSession' = IF doEngage THEN doSession ELSE engagedWithSession
          \* useCallback(startLiveSession, [permissionsGranted, driverState]) keeps
          \* the mockFunctions, and so the location, of the commit that made it
          /\ toolLocation' = IF depCallback THEN location ELSE toolLocation
          /\ sessLocation' = IF doSession
                              THEN (IF depCallback THEN location ELSE toolLocation)
                              ELSE sessLocation
          /\ currentInputTranscription' = IF doSession THEN <<>> ELSE currentInputTranscription
          /\ currentOutputTranscription' = IF doSession THEN <<>> ELSE currentOutputTranscription
          \* a new output AudioContext: its currentTime starts at 0
          /\ outClock' = IF doSession THEN 0 ELSE outClock
    /\ rendered' = Snapshot
    /\ locDirty' = FALSE
    /\ UNCHANGED <<permissionsGranted, modelsLoaded, transcriptions, location>>
    /\ UNCHANGED <<aiRef, eyeClosedFrames, noFaceFrames, setupPc, inFlight, runVars>>
    /\ UNCHANGED <<capture, lastFrame, sessionLog>>
    /\ UNCHANGED <<handlers, currentSong, nextAudioStartTime, receivedCalls, toolResponses, scheduled>>

\* ------------------------------------------------------- session lifecycle
\* startLiveSession: getUserMedia resolved, ai.live.connect called
SessionConnect ==
    /\ sessPc = "media"
    /\ sessPc' = "connecting"
    /\ UNCHANGED <<stateVars, refVars, setupPc, inFlight, commitVars, cycleVars, runVars, sessObs, msgVars>>

\* callbacks.onopen: microphone capture is wired to the session
OnOpen ==
    /\ sessPc = "connecting"
    /\ sessPc' = "open"
    /\ capture' = capture \cup {sessionsStarted}
    /\ UNCHANGED <<sessionsStarted, engagedWithSession, lastFrame, sessionLog>>
    /\ UNCHANGED <<stateVars, refVars, setupPc, inFlight, commitVars, cycleVars, runVars, msgVars>>

\* sessionPromiseRef.current: the session of the last live.connect (0: null)
sessionPromiseRef ==
    IF sessPc \in {"connecting", "open", "closed"} THEN sessionsStarted
    ELSE IF sessionsStarted > 0 THEN sessionsStarted - 1 ELSE 0

\* scriptProcessor.onaudioprocess of the capture wired for session c: the
\* frame goes to whatever sessionPromiseRef holds now
AudioProcess ==
    /\ \E c \in capture :
         /\ sessionPromiseRef # 0
         /\ lastFrame' = [from |-> c, to |-> sessionPromiseRef,
                          open |-> sessPc = "open"]
    /\ UNCHANGED <<sessionsStarted, engagedWithSession, capture, sessionLog>>
    /\ UNCHANGED <<stateVars, refVars, pcVars, commitVars, cycleVars, runVars, msgVars>>

\* callbacks.onerror: console.error and nothing else
OnError ==
    /\ sessPc \in {"connecting", "open"}
    /\ sessionLog' = "error"
    /\ UNCHANGED <<sessionsStarted, engagedWithSession, capture, lastFrame>>
    /\ UNCHANGED <<stateVars, refVars, pcVars, commitVars, cycleVars, runVars, msgVars>>

\* callbacks.onclose
OnClose ==
    /\ sessPc \in {"connecting", "open"}
    /\ sessPc' = "closed"
    /\ miraState' = "IDLE"
    /\ sessionLog' = "closed"
    /\ UNCHANGED <<driverState, permissionsGranted, modelsLoaded, transcriptions,
                   location, isEmergency, emergencyCountdown>>
    /\ UNCHANGED <<sessionsStarted, engagedWithSession, capture, lastFrame>>
    /\ UNCHANGED <<refVars, setupPc, inFlight, commitVars, cycleVars, runVars, msgVars>>

\* ------------------------------------------------------ callbacks.onmessage
\* String.prototype.trim on a text kept as a sequence of characters
RECURSIVE TrimStart(_)
TrimStart(t) == IF t # <<>> /\ Head(t) = " " THEN TrimStart(Tail(t)) ELSE t

RECURSIVE TrimEnd(_)
TrimEnd(t) == IF t # <<>> /\ t[Len(t)] = " " THEN TrimEnd(SubSeq(t, 1, Len(t) - 1)) ELSE t

\* no trimming
TrimNone(t) == t

Trim(t) == TrimEnd(TrimStart(t))

\* the keys of mockFunctions
mockFunctions == {"find_nearby_places", "play_spotify_song"}

\* a tool result as it is handed to session.sendToolResponse: the session the
\* ref points to at that moment, and whether that session is still open
ToolResponse(fc, result) ==
    [id |-> fc.id, name |-> fc.name, result |-> result,
     session |-> sessionPromiseRef, open |-> sessPc = "open"]

\* for (const fc of functionCalls): runs the calls from the first one on until
\* a handler waits for the network (st = "blocked", rest starts with that call),
\* a handler throws (st = "threw") or the batch is done.  loc is the location
\* the handler's closure holds.
RECURSIVE RunCalls(_, _, _, _)
RunCalls(calls, resp, song, loc) ==
    IF calls = <<>> THEN [st |-> "done", rest |-> <<>>, resp |-> resp, song |-> song]
    ELSE LET fc == Head(calls)
         IN IF fc.name \notin mockFunctions
            THEN RunCalls(Tail(calls), resp, song, loc)
            ELSE IF ~fc.args
            THEN [st |-> "threw", rest |-> <<>>, resp |-> resp, song |-> song]
            ELSE IF fc.name = "play_spotify_song"
            THEN RunCalls(Tail(calls), Append(resp, ToolResponse(fc, "now_playing")), fc.id, loc)
            ELSE IF ~loc
            THEN RunCalls(Tail(calls), Append(resp, ToolResponse(fc, "no_location")), song, loc)
            ELSE IF ~aiRef
            THEN RunCalls(Tail(calls), Append(resp, ToolResponse(fc, "no_ai")), song, loc)
            ELSE [st |-> "blocked", rest |-> calls, resp |-> resp, song |-> song]

\* new Int16Array(data.buffer) needs an even number of bytes
DecodeThrows(bytes) == bytes % 2 # 0

\* frameCount of the decoded buffer, which is its duration in sample periods
FrameCount(bytes) == bytes \div 2

\* the cursor ignored: every source starts at the current time
StartTimeClockOnly(next, clock) == clock

\* Math.max(nextAudioStartTimeRef.current, outputAudioContextRef.current.currentTime)
StartTime(next, clock) == IF next >= clock THEN next ELSE clock

\* the cursor left where the source started
CursorAfterStart(start, duration) == start

\* nextAudioStartTimeRef.current += audioBuffer.duration, the ref holding the
\* time the source was started at
CursorAfter(start, duration) == start + duration

\* The handler from the end of the tool loop on (run is what RunCalls left),
\* for a message with the given inline audio payload, received on session sid
\* by a handler whose closure holds the location loc; hs are the other
\* suspended handlers, and seen is the number of tool calls the agent had
\* issued before this message arrived (later messages never have fewer).
AfterTools(run, audio, sid, loc, hs, seen) ==
    LET play == run.st = "done" /\ audio > 0
        start == StartTime(nextAudioStartTime, outClock)
        \* the analyser of the handler's closure belongs to the output context
        \* of its own session: source.connect(analyser) throws when the ref
        \* holds the context of a later session
        connects == sid = sessionsStarted
    IN /\ toolResponses' = run.resp
       /\ currentSong' = run.song
       /\ handlers' = IF run.st = "blocked"
                      THEN Append(hs, [calls |-> run.rest, audio |-> audio, session |-> sid,
                                       loc |-> loc, seen |-> seen])
                      ELSE hs
       /\ nextAudioStartTime' = IF ~play THEN nextAudioStartTime
                                ELSE IF DecodeThrows(audio) \/ ~connects THEN start
                                ELSE CursorAfter(start, FrameCount(audio))
       /\ scheduled' = IF play /\ ~DecodeThrows(audio) /\ connects
                       THEN Append(scheduled, [start |-> start, duration |-> FrameCount(audio),
                                               clock |-> outClock, session |-> sessionsStarted,
                                               seen |-> seen])
                       ELSE scheduled
       /\ play /\ ~DecodeThrows(audio) /\ connects => Len(scheduled) < MaxChunks

\* the ids the agent gives to the calls of a batch
WithIds(batch) ==
    [i \in 1..Len(batch) |-> [id |-> Len(receivedCalls) + i, name |-> batch[i].name,
                              args |-> batch[i].args]]

\* one server message
OnMessage(msg) ==
    /\ sessPc = "open"
    /\ LET in1 == IF msg.hasInput THEN currentInputTranscription \o msg.inputText
                  ELSE currentInputTranscription
           out1 == IF msg.hasOutput THEN currentOutputTranscription \o msg.outputText
                   ELSE currentOutputTranscription
           t1 == IF msg.turnComplete /\ Trim(in1) # <<>>
                 THEN Append(transcriptions, [speaker |-> "USER", text |-> Trim(in1)])
                 ELSE transcriptions
           t2 == IF msg.turnComplete /\ Trim(out1) # <<>>
                 THEN Append(t1, [speaker |-> "MIRA", text |-> Trim(out1)])
                 ELSE t1
           m1 == IF msg.hasOutput THEN "SPEAKING" ELSE miraState
           m2 == IF msg.turnComplete THEN "LISTENING" ELSE m1
           m3 == IF msg.hasCalls THEN "THINKING" ELSE m2
           calls == IF msg.hasCalls THEN WithIds(msg.calls) ELSE <<>>
       IN /\ Len(in1) <= MaxText /\ Len(out1) <= MaxText
          /\ Len(t2) <= MaxTranscript
          /\ Len(receivedCalls) + Len(calls) <= MaxCalls
          /\ currentInputTranscription' = IF msg.turnComplete THEN <<>> ELSE in1
          /\ currentOutputTranscription' = IF msg.turnComplete THEN <<>> ELSE out1
          /\ transcriptions' = t2
          /\ miraState' = m3
          /\ receivedCalls' = receivedCalls \o calls
          /\ AfterTools(RunCalls(calls, toolResponses, currentSong, sessLocation),
                        msg.audio, sessionsStarted, sessLocation, handlers,
                        Len(receivedCalls))
    /\ UNCHANGED <<driverState, permissionsGranted, modelsLoaded, location,
                   isEmergency, emergencyCountdown>>
    /\ UNCHANGED <<refVars, pcVars, commitVars, cycleVars, runVars, sessObs>>
    /\ UNCHANGED <<outClock, toolLocation, sessLocation>>

RemoveAt(seq, i) == SubSeq(seq, 1, i - 1) \o SubSeq(seq, i + 1, Len(seq))

\* generateContent settles for the i-th suspended handler; find_nearby_places
\* returns response.text or, from its catch block, the apology; the handler
\* sends the result and goes on with the rest of the batch
ToolReturn(i, ok) ==
    /\ i \in DOMAIN handlers
    /\ LET h == handlers[i]
           fc == Head(h.calls)
           sent == Append(toolResponses, ToolResponse(fc, IF ok THEN "places" ELSE "lookup_failed"))
       IN AfterTools(RunCalls(Tail(h.calls), sent, currentSong, h.loc),
                     h.audio, h.session, h.loc, RemoveAt(handlers, i), h.seen)
    /\ UNCHANGED <<stateVars, refVars, pcVars, commitVars, cycleVars, runVars, sessObs>>
    /\ UNCHANGED <<currentInputTranscription, currentOutputTranscription, outClock,
                   toolLocation, sessLocation, receivedCalls>>

ToolSettles == \E i \in DOMAIN handlers, ok \in BOOLEAN : ToolReturn(i, ok)

\* the output AudioContext's currentTime moves on
ClockAdvance ==
    /\ sessionsStarted > 0
    /\ outClock < MaxClock
    /\ outClock' = outClock + 1
    /\ UNCHANGED <<stateVars, refVars, pcVars, commitVars, cycleVars, runVars, sessObs>>
    /\ UNCHANGED <<currentInputTranscription, currentOutputTranscription, handlers,
                   currentSong, nextAudioStartTime, toolLocation, sessLocation,
                   receivedCalls, toolResponses, scheduled>>

\* ----------------------------------------------------------- server messages
NoMessage == [hasInput |-> FALSE, inputText |-> <<>>, hasOutput |-> FALSE, outputText |-> <<>>,
              turnComplete |-> FALSE, hasCalls |-> FALSE, calls |-> <<>>, audio |-> 0]

\* messages without text, calls or audio: they only move the conversational state
PlainMessages ==
    {[NoMessage EXCEPT !.hasOutput = TRUE], [NoMessage EXCEPT !.turnComplete = TRUE],
     [NoMessage EXCEPT !.hasCalls = TRUE]}

\* args: the call carries an args object (a handler reads the fields of args)
CallShapes == [name : mockFunctions, args : BOOLEAN] \cup {[name |-> "get_weather", args |-> TRUE]}
Batches == UNION {[1..n -> CallShapes] : n \in 0..MaxBatch}
AudioSizes == {6, 8, 10, 5}

ToolMessages == {[NoMessage EXCEPT !.hasCalls = TRUE, !.calls = b, !.audio = a] :
                   b \in Batches, a \in {0, 6}}
AudioMessages == {[NoMessage EXCEPT !.audio = a] : a \in AudioSizes}

\* transcription deltas: what the driver said and what the agent said, one
\* character at a time, a blank among them
InputDeltas == {<<"a">>, <<" ">>}
OutputDeltas == {<<"b">>, <<" ">>}
TextMessages ==
    {[NoMessage EXCEPT !.hasInput = TRUE, !.inputText = d] : d \in InputDeltas}
    \cup {[NoMessage EXCEPT !.hasOutput = TRUE, !.outputText = d] : d \in OutputDeltas}
    \cup {[NoMessage EXCEPT !.hasInput = TRUE, !.inputText = i,
                            !.hasOutput = TRUE, !.outputText = o, !.turnComplete = TRUE] :
        i \in InputDeltas, o \in OutputDeltas}
    \cup {[NoMessage EXCEPT !.turnComplete = TRUE]}

ReceivePlain == \E msg \in PlainMessages : OnMessage(msg)
ReceiveText == \E msg \in TextMessages : OnMessage(msg)
ReceiveToolCall == \E msg \in ToolMessages : OnMessage(msg)
ReceiveAudio == \E msg \in AudioMessages : OnMessage(msg)

\* audio payloads of one length, and of an odd length that cannot be decoded
ShortAudioMessages == {msg \in AudioMessages : msg.audio \in {5, 6}}
ReceiveShortAudio == \E msg \in ShortAudioMessages : OnMessage(msg)

\* ------------------------------------------------------- specifications
\* a camera in front of a driver whose eyes are open whenever the face is found
DetectSampleAwake == \E s \in {NoFace} \cup OpenSamples : DetectDone(s)

\* Detector, state machine, countdown and session lifecycle; no geolocation
\* fix arrives, the driver does not touch the screen and the session is silent.
NextFatigue ==
    \/ SetupModelsLoaded
    \/ SetupPermissions
    \/ SetupFailed
    \/ DetectTick
    \/ DetectSample
    \/ CountdownTick
    \/ Render
    \/ SessionConnect
    \/ OnOpen
    \/ OnClose

FatigueSpec == Init /\ [][NextFatigue]_vars

\* Emergency countdown with geolocation fixes and the "I'm Okay" button; the
\* driver's eyes are open whenever the face is found, so no session starts.
NextEmergency ==
    \/ SetupModelsLoaded
    \/ SetupPermissions
    \/ SetupFailed
    \/ LocationUpdate
    \/ DetectTick
    \/ DetectSampleAwake
    \/ CountdownTick
    \/ cancelEmergency
    \/ Render

EmergencySpec == Init /\ [][NextEmergency]_vars

\* A landmark detector that sometimes returns eye arrays of five or seven
\* points, in front of a driver whose eyes are open or whose face is lost.
NextLandmark ==
    \/ SetupModelsLoaded
    \/ SetupPermissions
    \/ SetupFailed
    \/ DetectTick
    \/ DetectSampleAwake
    \/ DetectMalformed
    \/ CountdownTick
    \/ Render

LandmarkSpec == Init /\ [][NextLandmark]_vars

\* The detector and the commits alone, up to the first escalation: any
\* sequence of samples, while no countdown ticks and no session progresses.
NextDetector ==
    \/ SetupModelsLoaded
    \/ SetupPermissions
    \/ SetupFailed
    \/ DetectTick
    \/ DetectSample
    \/ Render

DetectorSpec == Init /\ [][NextDetector]_vars

\* A face detection that takes longer than the 200 ms between two ticks, in
\* front of a driver whose eyes are open or whose face is lost.
NextSlowDetection ==
    \/ SetupModelsLoaded
    \/ SetupPermissions
    \/ SetupFailed
    \/ DetectTick
    \/ DetectTickWhileRunning
    \/ DetectSampleAwake
    \/ CountdownTick
    \/ Render

SlowDetectionSpec == Init /\ [][NextSlowDetection]_vars

\* API_KEY not configured: no session can start.
NextNoKey ==
    \/ SetupModelsLoaded
    \/ SetupPermissions
    \/ SetupFailed
    \/ DetectTick
    \/ DetectSample
    \/ CountdownTick
    \/ Render

NoKeySpec == InitNoKey /\ [][NextNoKey]_vars

\* A session that has just opened after the first drowsy episode, with or
\* without a geolocation fix received before the episode.
InitSession ==
    /\ driverState = "ENGAGED"
    /\ miraState = "LISTENING"
    /\ permissionsGranted = TRUE
    /\ modelsLoaded = TRUE
    /\ transcriptions = <<>>
    /\ location \in BOOLEAN
    /\ isEmergency = FALSE
    /\ emergencyCountdown = COUNTDOWN_START
    /\ aiRef = TRUE
    /\ emergencyTimerRef = 0
    /\ liveTimers = {}
    /\ detectionInterval = FALSE
    /\ eyeClosedFrames = CONSECUTIVE_FRAMES_DROWSY + 1
    /\ noFaceFrames = 0
    /\ setupPc = "done"
    /\ inFlight = 0
    /\ sessPc = "open"
    /\ rendered = Snapshot
    /\ locDirty = FALSE
    /\ started = 0 /\ notified = 0 /\ cycleTicks = 0 /\ cycleNotifs = 0
    /\ cycleAcks = 0 /\ cancelAt = -1
    /\ runClosed = CONSECUTIVE_FRAMES_DROWSY + 1 /\ runDrowsyReqs = 1
    /\ runNoFace = 0 /\ runUnrespReqs = 0
    /\ detectError = "none"
    /\ sessionsStarted = 1 /\ engagedWithSession = TRUE
    /\ capture = {1} /\ lastFrame = NoFrame /\ sessionLog = "none"
    /\ currentInputTranscription = <<>> /\ currentOutputTranscription = <<>>
    /\ handlers = <<>>
    /\ currentSong = "none"
    /\ nextAudioStartTime = 0
    /\ outClock = 0
    /\ toolLocation = location /\ sessLocation = location
    /\ receivedCalls = <<>> /\ toolResponses = <<>> /\ scheduled = <<>>

\* The open session as the tool dispatcher sees it: batches of tool calls,
\* some with an audio payload, the lookups they wait for, and the close.
NextTool ==
    \/ ReceiveToolCall
    \/ ToolSettles
    \/ Render
    \/ OnClose

ToolSpec == InitSession /\ [][NextTool]_vars

\* The open session as the playback scheduler sees it: audio payloads and the
\* output clock.
NextAudio ==
    \/ ReceiveAudio
    \/ ClockAdvance
    \/ Render
    \/ OnClose

AudioSpec == InitSession /\ [][NextAudio]_vars

\* The life of the opened session: messages that move the conversational
\* state, microphone frames, geolocation fixes, transport errors and the close.
NextLifecycle ==
    \/ ReceivePlain
    \/ LocationUpdate
    \/ AudioProcess
    \/ OnError
    \/ OnClose
    \/ Render

LifecycleSpec == InitSession /\ [][NextLifecycle]_vars

\* The session, while it stays open, as the transcript sees it: transcription
\* deltas and turn-complete events.
NextTranscript ==
    \/ ReceiveText
    \/ Render

TranscriptSpec == InitSession /\ [][NextTranscript]_vars

\* a driver whose eyes stay closed
DetectSampleClosed == \E s \in ClosedSamples : DetectDone(s)

\* A driver whose eyes stay closed: the session opened by the first drowsy
\* episode plays audio and closes, and a detection that was still running
\* raises the next episode, which opens the next session.
NextReconnect ==
    \/ SetupModelsLoaded
    \/ SetupPermissions
    \/ DetectTick
    \/ DetectSampleClosed
    \/ Render
    \/ SessionConnect
    \/ OnOpen
    \/ OnClose
    \/ ReceiveShortAudio
    \/ ClockAdvance

ReconnectSpec == Init /\ [][NextReconnect]_vars

\* A driver whose eyes stay closed and the sessions of the drowsy episodes as
\* the conversational state sees them: connection, messages that move the
\* state, transport errors, close.
NextConversation ==
    \/ SetupModelsLoaded
    \/ SetupPermissions
    \/ DetectTick
    \/ DetectSampleClosed
    \/ Render
    \/ SessionConnect
    \/ OnOpen
    \/ OnError
    \/ OnClose
    \/ ReceivePlain

ConversationSpec == Init /\ [][NextConversation]_vars

NextAll ==
    \/ SetupModelsLoaded
    \/ SetupPermissions
    \/ SetupFailed
    \/ LocationUpdate
    \/ DetectTick
    \/ DetectSample
    \/ CountdownTick
    \/ cancelEmergency
    \/ Render
    \/ SessionConnect
    \/ OnOpen
    \/ OnClose
    \/ OnError
    \/ AudioProcess
    \/ ReceivePlain

Spec == Init /\ [][NextAll]_vars

\* ==================================================================
\* Properties
\* ==================================================================

\* C1: the emergency notification fires at most once per started countdown:
\* the number of notifications never exceeds the number of countdowns started.
C1_NotifyAtMostOncePerCycle == notified <= started

\* C2: in a countdown cycle that is not cancelled the notification fires
\* exactly once, after exactly 15 ticks, and not after fewer.
C2_NotifyOnceAfterFifteenTicks ==
    (started > 0 /\ cycleAcks = 0) =>
        /\ cycleNotifs <= 1
        /\ cycleNotifs = 1 => cycleTicks = COUNTDOWN_START
        /\ cycleTicks < COUNTDOWN_START => cycleNotifs = 0

\* C3: cancelling while the countdown is active with 1..15 seconds remaining
\* stops the timer, clears the emergency flag, sets driverState to MONITORING
\* and appends exactly one USER entry "I'm okay." in that step, and no
\* notification fires for that cycle afterwards.
C3_CancelStopsCountdown ==
    /\ [](cancelAt \in 1..COUNTDOWN_START => cycleNotifs = 0 /\ liveTimers = {})
    /\ [][(cancelEmergency /\ isEmergency /\ emergencyCountdown \in 1..COUNTDOWN_START) =>
            /\ liveTimers' = {}
            /\ isEmergency' = FALSE
            /\ driverState' = "MONITORING"
            /\ transcriptions' = Append(transcriptions, [speaker |-> "USER", text |-> ImOkay])]_vars

\* a cycle cancelled with 8 seconds remaining, after which a geolocation fix
\* arrived and was committed
C3_Witness ==
    /\ cancelAt = 8 /\ cycleAcks = 1 /\ cycleNotifs = 0
    /\ driverState = "MONITORING" /\ ~isEmergency /\ liveTimers = {}
    /\ location /\ ~locDirty /\ ~RenderPending
    /\ transcriptions = <<[speaker |-> "USER", text |-> ImOkay]>>

\* C4: no countdown cycle both records the "I'm okay" acknowledgment and
\* fires the emergency notification.
C4_CancelExcludesExpiry == ~(cycleAcks > 0 /\ cycleNotifs > 0)

\* C5: in a run of consecutive closed-eye samples that starts in MONITORING
\* with eyeClosedFrames = 0, DROWSY is requested on none of the first 10
\* samples and exactly once by the 11th.
C5_DrowsyOnEleventhSample ==
    /\ runClosed \in 1..CONSECUTIVE_FRAMES_DROWSY => runDrowsyReqs = 0
    /\ runClosed = CONSECUTIVE_FRAMES_DROWSY + 1 => runDrowsyReqs = 1

C5_Witness ==
    /\ runClosed = CONSECUTIVE_FRAMES_DROWSY + 1 /\ runDrowsyReqs = 1
    /\ driverState = "DROWSY"

\* C6: in a run of consecutive no-face samples that starts in MONITORING with
\* noFaceFrames = 0, UNRESPONSIVE is requested on none of the first 25 samples
\* and by the 26th; and every sample with a face leaves noFaceFrames at 0.
C6_UnresponsiveOnTwentySixthSample ==
    /\ [](runNoFace \in 1..CONSECUTIVE_FRAMES_UNRESPONSIVE => runUnrespReqs = 0)
    /\ [](runNoFace = CONSECUTIVE_FRAMES_UNRESPONSIVE + 1 => runUnrespReqs = 1)
    /\ [][(\E s \in FaceSamples : DetectDone(s)) => noFaceFrames' = 0]_vars

C6_Witness ==
    /\ runNoFace = CONSECUTIVE_FRAMES_UNRESPONSIVE + 1 /\ runUnrespReqs = 1
    /\ driverState = "UNRESPONSIVE"

\* C7: whenever driverState is DROWSY the step to ENGAGED is due without any
\* external event: a commit is pending and the conversational state lets the
\* escalation effect act.
C7_DrowsyBecomesEngaged ==
    driverState = "DROWSY" => (RenderPending /\ miraState = "IDLE")

\* C8: driverState is ENGAGED only if the escalation that set it also started
\* a session.
C8_EngagedHasSession == driverState = "ENGAGED" => engagedWithSession

\* C9: once no handler is suspended, every tool call received has exactly one
\* tool result with its id and name.
C9_EveryCallAnsweredOnce ==
    handlers = <<>> =>
        \A i \in DOMAIN receivedCalls :
            Cardinality({j \in DOMAIN toolResponses :
                            /\ toolResponses[j].id = receivedCalls[i].id
                            /\ toolResponses[j].name = receivedCalls[i].name}) = 1

\* C10: within a session consecutive chunks never overlap, and a chunk that
\* arrives before the previous chunk's scheduled end starts exactly at that end.
C10_GaplessPlayback ==
    \A k \in 1..(Len(scheduled) - 1) :
        LET a == scheduled[k]
            b == scheduled[k + 1]
        IN a.session = b.session =>
              /\ b.start >= a.start + a.duration
              /\ b.clock < a.start + a.duration => b.start = a.start + a.duration

\* durations 5, 3, 4 all arriving before the first start t0 = 1
C10_Witness ==
    /\ Len(scheduled) = 3
    /\ scheduled[1].duration = 5 /\ scheduled[2].duration = 3 /\ scheduled[3].duration = 4
    /\ scheduled[1].start = 1 /\ scheduled[2].start = 6 /\ scheduled[3].start = 9
    /\ scheduled[3].clock = 1

\* the text without its leading and trailing blanks, by the positions of its
\* first and last non-blank character
NonBlankAt(t) == {i \in 1..Len(t) : t[i] # " "}
Stripped(t) ==
    IF NonBlankAt(t) = {} THEN <<>>
    ELSE SubSeq(t, CHOOSE i \in NonBlankAt(t) : \A j \in NonBlankAt(t) : i <= j,
                   CHOOSE i \in NonBlankAt(t) : \A j \in NonBlankAt(t) : i >= j)
FlushedEntries(input, output) ==
    (IF NonBlankAt(input) = {} THEN <<>> ELSE <<[speaker |-> "USER", text |-> Stripped(input)]>>)
    \o (IF NonBlankAt(output) = {} THEN <<>> ELSE <<[speaker |-> "MIRA", text |-> Stripped(output)]>>)

C12_NoFrameAfterClose ==
    lastFrame # NoFrame => (lastFrame.open /\ lastFrame.from = lastFrame.to)

\* C13: an error event and a close event of the session each leave the
\* conversational state IDLE.
C13_ErrorOrCloseLeavesIdle ==
    [][(OnError \/ OnClose) => miraState' = "IDLE"]_vars

\* C14: a sample whose landmark arrays do not have six points ends the
\* callback with InvalidLandmarkSet, changes neither counter nor driverState
\* and leaves the detection interval running.
C14_InvalidLandmarkSetRejected ==
    [][\A s \in MalformedSamples :
          DetectDone(s) =>
            /\ detectError' = "InvalidLandmarkSet"
            /\ UNCHANGED <<eyeClosedFrames, noFaceFrames, driverState, detectionInterval>>]_vars

\* C15: while driverState is DROWSY, ENGAGED or UNRESPONSIVE no detection
\* sample changes eyeClosedFrames, noFaceFrames or driverState.
C15_NoSampleEffectWhileEscalated ==
    [][(driverState # "MONITORING" /\ DetectSample) =>
          UNCHANGED <<eyeClosedFrames, noFaceFrames, driverState>>]_vars

\* C16: while the emergency countdown is active driverState is UNRESPONSIVE,
\* and only the expiry of the countdown and its cancellation change it.
C16_UnresponsiveWhileCountingDown ==
    /\ [](isEmergency => driverState = "UNRESPONSIVE")
    /\ [][(isEmergency /\ driverState' # driverState) =>
            (cancelEmergency \/ (Render /\ ExpiryDue(emergencyCountdown)))]_vars

\* C17: once driverState is ENGAGED no step changes it.
C17_EngagedIsStable ==
    [][driverState = "ENGAGED" => driverState' = "ENGAGED"]_vars

C19_CounterUpdates ==
    [][\A s \in Samples :
          (inFlight' < inFlight /\ DetectDone(s)) =>
            IF s.face
            THEN /\ noFaceFrames' = 0
                 /\ eyeClosedFrames' = IF s \in ClosedSamples THEN eyeClosedFrames + 1 ELSE 0
            ELSE /\ noFaceFrames' = noFaceFrames + 1
                 /\ eyeClosedFrames' = eyeClosedFrames]_vars

\* closed-eye samples with a no-face sample among them reached the threshold:
\* DROWSY is requested although no unbroken run of closed-eye samples was seen
C19_Witness ==
    /\ eyeClosedFrames = CONSECUTIVE_FRAMES_DROWSY + 1
    /\ driverState = "DROWSY"
    /\ runClosed = 0 /\ runDrowsyReqs = 0

\* C20: at most one detection cycle is in flight.
C20_NoOverlappingDetection == inFlight <= 1

\* the calls of a batch whose handler throws: a handler reads a field of args
ThrowingCalls(calls) == {i \in DOMAIN calls : calls[i].name \in mockFunctions /\ ~calls[i].args}

\* C21: when the handler of a call of a batch throws, that call is answered
\* with a failure result, every other call of the batch with a handler is
\* answered or waits for its lookup, and an inline audio payload of the same
\* message is scheduled unless the message waits for a lookup.
C21_ThrownCallConfined ==
    [][\A msg \in ToolMessages :
          (OnMessage(msg) /\ ThrowingCalls(msg.calls) # {}) =>
            LET calls == WithIds(msg.calls)
                answered == {toolResponses'[j].id : j \in DOMAIN toolResponses'}
                waiting == UNION {{handlers'[k].calls[j].id : j \in DOMAIN handlers'[k].calls} :
                                    k \in DOMAIN handlers'}
            IN /\ \A i \in ThrowingCalls(msg.calls) :
                     \E j \in DOMAIN toolResponses' :
                        /\ toolResponses'[j].id = calls[i].id
                        /\ toolResponses'[j].result = "handler_failed"
               /\ \A i \in DOMAIN calls :
                     calls[i].name \in mockFunctions => calls[i].id \in answered \cup waiting
               /\ (msg.audio > 0 /\ handlers' = handlers) =>
                     Len(scheduled') = Len(scheduled) + 1]_vars

\* C22: the chunks are scheduled in the order in which the messages that
\* carried them arrived: no chunk is scheduled ahead of the chunk of a message
\* that arrived before its own.
C22_ChunksInArrivalOrder ==
    \A k \in 1..(Len(scheduled) - 1) : scheduled[k].seen <= scheduled[k + 1].seen

\* C23: no step lowers the playback cursor; a step that schedules a chunk
\* starts it at the larger of the cursor and the output clock and leaves the
\* cursor at that start plus the chunk's duration, half its byte length.
C23_CursorNeverDecreases ==
    /\ [][nextAudioStartTime' >= nextAudioStartTime]_vars
    /\ [][\A msg \in AudioMessages :
            (OnMessage(msg) /\ msg.audio % 2 = 0) =>
              LET start == IF nextAudioStartTime >= outClock THEN nextAudioStartTime
                           ELSE outClock
              IN /\ Len(scheduled') = Len(scheduled) + 1
                 /\ scheduled'[Len(scheduled')].start = start
                 /\ scheduled'[Len(scheduled')].duration = msg.audio \div 2
                 /\ nextAudioStartTime' = start + msg.audio \div 2]_vars

\* a chunk of the first session, then a chunk of the second session that
\* arrived when the clock of its context had passed the cursor
C23_Witness ==
    /\ Len(scheduled) = 2
    /\ scheduled[1].session = 1 /\ scheduled[2].session = 2
    /\ scheduled[2].clock > scheduled[1].start + scheduled[1].duration
    /\ scheduled[2].start = scheduled[2].clock
    /\ nextAudioStartTime = scheduled[2].start + scheduled[2].duration

\* C24: every tool result was handed to a session that was open at that
\* moment, the session that issued the call.
C24_NoResultAfterClose ==
    \A j \in DOMAIN toolResponses : toolResponses[j].open

\* C25: while a session is being opened or is open the conversational state
\* is not IDLE; a session start is initiated only with the conversational
\* state IDLE and no session open or being opened, it is one start, and it
\* leaves the conversational state other than IDLE.
C25_OneSessionAtATime ==
    /\ [](sessPc \in {"media", "connecting", "open"} => miraState # "IDLE")
    /\ [][sessionsStarted' # sessionsStarted =>
            /\ miraState = "IDLE"
            /\ sessPc \in {"none", "closed"}
            /\ sessionsStarted' = sessionsStarted + 1
            /\ sessPc' = "media"
            /\ miraState' # "IDLE"]_vars

\* the second session, opened after the first one has closed, in a tool call
C25_Witness ==
    /\ sessionsStarted = 2 /\ sessPc = "open" /\ miraState = "THINKING"
    /\ sessionLog = "closed"

\* C26: a countdown timer is live exactly when the emergency flag is set, and
\* secondsRemaining is between 0 and 15.
C26_TimerIffEmergency ==
    /\ (liveTimers # {}) <=> isEmergency
    /\ emergencyCountdown \in 0..COUNTDOWN_START

\* the last tick has brought secondsRemaining to 0 and the commit that stops
\* the timer has not run yet
C26_Witness ==
    /\ isEmergency /\ liveTimers # {}
    /\ emergencyCountdown = 0 /\ cycleTicks = COUNTDOWN_START
    /\ rendered.emergencyCountdown = 1

\* C27: a step that changes driverState without processing a sample leaves
\* both counters as they are, and the step that ends an emergency cycle, by
\* expiry or by cancellation, leaves noFaceFrames above 25, so that the next
\* sample without a face sets UNRESPONSIVE again.
C27_CountersSurviveCycle ==
    /\ [][(driverState' # driverState /\ inFlight' = inFlight) =>
            UNCHANGED <<eyeClosedFrames, noFaceFrames>>]_vars
    /\ [][(isEmergency /\ ~isEmergency') =>
            noFaceFrames' > CONSECUTIVE_FRAMES_UNRESPONSIVE]_vars

\* C28: the first chunk scheduled in a session starts at the time the clock
\* of that session's output context showed when its payload arrived.
C28_FirstChunkAtNewClock ==
    \A k \in DOMAIN scheduled :
        (k = 1 \/ scheduled[k - 1].session # scheduled[k].session) =>
            scheduled[k].start = scheduled[k].clock

====
